---- MODULE Spec2Model ----
(***************************************************************************)
(* A model of whistler.bot (src/whistler/bot.py): the WhistlerBot session  *)
(* and command core.  Strings are sequences of one-character strings, so   *)
(* that str.split() and str.startswith() are computed, not assumed.        *)
(* Every public method of the bot is an action; the record obs holds what  *)
(* the call in progress has done (handlers invoked, replies sent, log      *)
(* events, transport calls, exception raised) and Return hands control     *)
(* back to the single dispatch context.                                    *)
(***************************************************************************)
EXTENDS Naturals, Sequences, FiniteSets

VARIABLES
    client,         \* self.client: "None" or "Client"
    handlers,       \* event handlers installed on the client: <<event, method>>
    plugins,        \* plug-ins registered on the client
    tconn,          \* the transport's connection: "idle", "up", "closed"
    processing,     \* start() is inside client.process()
    idle,           \* self.idle: "None", or the job it holds: "Running", "Stopped"
    jobs,           \* keep-alive jobs started and not stopped
    rooms,          \* self.rooms
    initial_users,  \* self._initial_users: None (isNone), or a set of identities
    server,         \* self.server: "None" or "Tuple"
    roster,         \* self.client.roster (bare identities)
    classCmds,      \* cmd_<name> methods of the bot's class
    instCmds,       \* cmd_<name> attributes set on the instance
    lastReg,        \* history: the handler of the latest register_command per name
    obs             \* what the call in progress did

vars == <<client, handlers, plugins, tconn, processing, idle, jobs,
          rooms, initial_users, server, roster, classCmds, instCmds, lastReg, obs>>

----------------------------------------------------------------------------
\* Bounds

MaxLen == 4
MaxJobs == 2

----------------------------------------------------------------------------
\* Values

COMMAND_CHAR == "!"

\* Python's None, and a str value holding its characters.
NoneVal == [tag |-> "none", val |-> <<>>]
Str(s) == [tag |-> "str", val |-> s]

\* The characters message bodies are drawn from.
Chars == {COMMAND_CHAR, " ", ",", ":", "n"}

RECURSIVE SeqsUpTo(_)
SeqsUpTo(k) ==
    IF k = 0 THEN {<<>>}
    ELSE LET shorter == SeqsUpTo(k - 1)
         IN shorter \cup {Append(s, c) : s \in {t \in shorter : Len(t) = k - 1}, c \in Chars}

Bodies == SeqsUpTo(MaxLen)

\* str.isspace() on one character, as str.split() with no separator uses it.
IsSpace(c) == c \in {" ", "\t", "\n", "\r"}

\* body.split(): the maximal runs of non-whitespace characters, in order.
RECURSIVE SplitFrom(_, _, _)
SplitFrom(s, i, cur) ==
    IF i > Len(s)
    THEN IF cur = <<>> THEN <<>> ELSE <<cur>>
    ELSE IF IsSpace(s[i])
         THEN IF cur = <<>> THEN SplitFrom(s, i + 1, <<>>)
              ELSE <<cur>> \o SplitFrom(s, i + 1, <<>>)
         ELSE SplitFrom(s, i + 1, Append(cur, s[i]))

Split(s) == SplitFrom(s, 1, <<>>)

\* body.startswith(prefix)
StartsWith(s, p) == Len(s) >= Len(p) /\ SubSeq(s, 1, Len(p)) = p

\* seq[k:] for k >= 0 (Python slice from index k; empty past the end)
SliceFrom(s, k) == IF k >= Len(s) THEN <<>> ELSE SubSeq(s, k + 1, Len(s))

----------------------------------------------------------------------------
\* Identities and messages

\* Bare addresses of others; "room" and "lobby" are group channels.
BareIds == {"alice", "bob", "room", "lobby"}

\* The bot's own address as given to __init__, and self.jid, which __init__
\* extends by "/" and the resource.
SelfBare == "bot"
SelfJid == "bot/n"

\* The keys a roster may hold.
RosterIds == {"alice", "room", "lobby", SelfBare, SelfJid}
Users == {"alice", "bob"}
Rooms == {"room", "lobby"}

NoJid == [bare |-> "none", resource |-> "none"]
Jids == {[bare |-> b, resource |-> "pc"] : b \in BareIds}

NoMsg == [from |-> NoJid, body |-> <<>>, type |-> "none"]
Messages(type) == {[from |-> j, body |-> b, type |-> type] : j \in Jids, b \in Bodies}

\* self.resource: the nickname the bot joins rooms with.
resource == <<"n">>

\* The names the module's global namespace binds (imports and definitions).
ModuleGlobals ==
    {"os", "sys", "time", "random", "warnings", "update_wrapper", "ClientXMPP",
     "WhistlerLog", "WhistlerIdleJob", "COMMAND_CHAR", "restricted",
     "WhistlerConnectionError", "WhistlerBot"}

\* The attributes class WhistlerBot defines.
Methods ==
    {"users", "send_to", "set_subject", "connect", "handle_session_start",
     "register_command", "start", "stop", "is_validuser", "register_user",
     "unregister_user", "handle_presence", "hande_muc_message", "handle_message",
     "join_room", "disconnect", "leave_room"}

----------------------------------------------------------------------------
\* Command registry: cmd_<name> attributes

\* getattr(self, ..., None) finding nothing
Absent == [kind |-> "absent", fun |-> "none"]
\* a handler function, and restricted(fun): the wrapper `new` around fun
Plain(f) == [kind |-> "plain", fun |-> f]
Restricted(f) == [kind |-> "restricted", fun |-> f]

Funs == {"f1", "f2"}
\* What register_command is given: functions of (message, arguments), as the
\* routers call them.  restricted() wraps a method (self, msg, args) of the class.
Bindings == {Plain(f) : f \in Funs}

\* "cmd_%s" % cmdname
AttrName(name) == <<"cmd_">> \o name

\* The command names register_command is called with, and the tables of
\* cmd_<name> methods a subclass defines (as TestBot defines cmd_echo).
CmdNames == {<<"n">>, <<"n", "n">>}
NoCmds == [a \in {} |-> Absent]
ClassTables ==
    {NoCmds,
     [a \in {AttrName(<<"n">>)} |-> Plain("f1")],
     [a \in {AttrName(<<"n">>)} |-> Restricted("f1")]}

\* getattr(self, "cmd_%s" % name, None): the instance's attribute, else the class's
GetCommand(name) ==
    LET a == AttrName(name)
    IN IF a \in DOMAIN instCmds THEN instCmds[a]
       ELSE IF a \in DOMAIN classCmds THEN classCmds[a]
       ELSE Absent

\* setattr(self, "cmd_%s" % cmdname, cmdfun)
SetAttr(table, a, h) == [x \in DOMAIN table \cup {a} |-> IF x = a THEN h ELSE table[x]]

----------------------------------------------------------------------------
\* Authorization

\* (a variant without the room test)
IsValidUserNoRoomCheck(jid) == jid \in roster

\* is_validuser(jid): jid not in self.rooms and jid in self.client.roster
IsValidUser(jid) == jid \notin rooms /\ jid \in roster

\* is_validuser dereferences self.client only when the first conjunct holds
ValidUserRaises(jid) == jid \notin rooms /\ client = "None"

\* Results a handler function may return: None, "" and a text.
Results == {NoneVal, Str(<<>>), Str(<<"o", "k">>)}

Invocation(f, msg, args) == [fun |-> f, msg |-> msg, args |-> args]

\* command(message, arguments), for the attribute found; res is what the handler
\* function returns when it runs.
Call(command, msg, args, res) ==
    IF command.kind = "plain"
    THEN [inner |-> <<Invocation(command.fun, msg, args)>>, warnings |-> 0,
          result |-> res, error |-> "none"]
    ELSE LET user == msg.from.bare
         IN IF ValidUserRaises(user)
            THEN [inner |-> <<>>, warnings |-> 0, result |-> NoneVal,
                  error |-> "AttributeError"]
            ELSE IF IsValidUser(user)
            THEN [inner |-> <<Invocation(command.fun, msg, args)>>, warnings |-> 0,
                  result |-> res, error |-> "none"]
            ELSE [inner |-> <<>>, warnings |-> 1, result |-> NoneVal,
                  error |-> "none"]

----------------------------------------------------------------------------
\* Message router

Parsed(kind, name, args) == [kind |-> kind, name |-> name, args |-> args]

\* The test of hande_muc_message that returns at once: "None to handle".
IsInert(body) ==
    \/ body = <<>>
    \/ /\ body[1] # COMMAND_CHAR
       /\ ~StartsWith(body, resource \o <<",", " ">>)
       /\ ~StartsWith(body, resource \o <<":", " ">>)

\* (a variant without the test for the sigil or the nickname prefix)
MucParseAnyBody(body) ==
    LET toks == Split(body)
    IN IF body = <<>> THEN Parsed("inert", <<>>, <<>>)
       ELSE IF body[1] = COMMAND_CHAR
       THEN Parsed("command", SliceFrom(toks[1], 1), SliceFrom(toks, 1))
       ELSE IF Len(toks) < 2 THEN Parsed("IndexError", <<>>, <<>>)
       ELSE Parsed("command", toks[2], SliceFrom(toks, 2))

\* hande_muc_message up to the lookup: the command name and the arguments, or
\* the IndexError of body.split()[1] when the prefix is all there is.
MucParse(body) ==
    LET toks == Split(body)
    IN IF IsInert(body) THEN Parsed("inert", <<>>, <<>>)
       ELSE IF body[1] = COMMAND_CHAR
       THEN Parsed("command", SliceFrom(toks[1], 1), SliceFrom(toks, 1))
       ELSE IF Len(toks) < 2 THEN Parsed("IndexError", <<>>, <<>>)
       ELSE Parsed("command", toks[2], SliceFrom(toks, 2))

\* (a variant that passes every token, the name included, as arguments)
DirectParseKeepName(body) ==
    LET toks == Split(body)
    IN IF body = <<>> THEN Parsed("inert", <<>>, <<>>)
       ELSE IF Len(toks) < 1 THEN Parsed("IndexError", <<>>, <<>>)
       ELSE Parsed("command", toks[1], toks)

\* handle_message up to the lookup; body[0] of an empty token list is an IndexError.
DirectParse(body) ==
    LET toks == Split(body)
    IN IF body = <<>> THEN Parsed("inert", <<>>, <<>>)
       ELSE IF Len(toks) < 1 THEN Parsed("IndexError", <<>>, <<>>)
       ELSE Parsed("command", toks[1], SliceFrom(toks, 1))

\* (a variant that tests the result's truth value: `if result:`)
ShouldReplyIfTruthy(result) == result # NoneVal /\ result.val # <<>>

\* result is not None
ShouldReply(result) == result # NoneVal

\* message.reply(result).send(): a reply in the context the message came from
Reply(msg, result) == [msg |-> msg, body |-> result.val]

\* What a call has done so far; Quiet is a call that did nothing.  tcalls are the
\* calls made on the client and on the idle job, in order; arg is the call's
\* input, valid and view what is_validuser and users give back.
Pre == [client |-> client, tconn |-> tconn, pending |-> initial_users, idle |-> idle]

Quiet(op, msg) ==
    [op |-> op, msg |-> msg, error |-> "none", parsed |-> Parsed("none", <<>>, <<>>),
     command |-> Absent, calls |-> <<>>, inner |-> <<>>, result |-> NoneVal,
     replies |-> <<>>, warnings |-> 0, infos |-> 0, tcalls |-> <<>>, pre |-> Pre,
     arg |-> "none", valid |-> FALSE, view |-> {}]

Idle == [op |-> "idle", msg |-> NoMsg, error |-> "none",
         parsed |-> Parsed("none", <<>>, <<>>), command |-> Absent, calls |-> <<>>,
         inner |-> <<>>, result |-> NoneVal, replies |-> <<>>, warnings |-> 0,
         infos |-> 0, tcalls |-> <<>>,
         pre |-> [client |-> "None", tconn |-> "idle",
                 pending |-> [isNone |-> TRUE, set |-> {}], idle |-> "None"],
         arg |-> "none", valid |-> FALSE, view |-> {}]

\* (a variant that answers an unknown command with an error text)
DispatchErrorReply(op, msg, p, res) ==
    LET command == GetCommand(p.name)
        out == Call(command, msg, p.args, res)
    IN IF p.kind = "inert" THEN [Quiet(op, msg) EXCEPT !.parsed = p]
       ELSE IF p.kind = "IndexError"
       THEN [Quiet(op, msg) EXCEPT !.parsed = p, !.error = "IndexError"]
       ELSE IF command = Absent
       THEN [Quiet(op, msg) EXCEPT !.parsed = p,
                                   !.replies = <<Reply(msg, Str(<<"?">>))>>]
       ELSE [Quiet(op, msg) EXCEPT
                !.parsed = p, !.command = command,
                !.calls = <<Invocation(command, msg, p.args)>>,
                !.inner = out.inner, !.result = out.result,
                !.warnings = out.warnings, !.infos = 1, !.error = out.error,
                !.replies = IF out.error = "none" /\ ShouldReply(out.result)
                            THEN <<Reply(msg, out.result)>> ELSE <<>>]

\* The common tail of both routers: look the command up; if found, log it,
\* call it and reply with a result that is not None.
Dispatch(op, msg, p, res) ==
    LET command == GetCommand(p.name)
        out == Call(command, msg, p.args, res)
    IN IF p.kind = "inert" THEN [Quiet(op, msg) EXCEPT !.parsed = p]
       ELSE IF p.kind = "IndexError"
       THEN [Quiet(op, msg) EXCEPT !.parsed = p, !.error = "IndexError"]
       ELSE IF command = Absent
       THEN [Quiet(op, msg) EXCEPT !.parsed = p]
       ELSE [Quiet(op, msg) EXCEPT
                !.parsed = p, !.command = command,
                !.calls = <<Invocation(command, msg, p.args)>>,
                !.inner = out.inner, !.result = out.result,
                !.warnings = out.warnings, !.infos = 1, !.error = out.error,
                !.replies = IF out.error = "none" /\ ShouldReply(out.result)
                            THEN <<Reply(msg, out.result)>> ELSE <<>>]

\* The two routers as functions of the message and of the handler's result.
MucRoute(op, msg, res) == Dispatch(op, msg, MucParse(msg.body), res)
DirectRoute(op, msg, res) == Dispatch(op, msg, DirectParse(msg.body), res)

botVars == <<client, handlers, plugins, tconn, processing, idle, jobs,
             rooms, initial_users, server, roster, classCmds, instCmds, lastReg>>

\* hande_muc_message(message)
HandeMucMessage(msg, res) ==
    /\ obs = Idle
    /\ obs' = MucRoute("muc", msg, res)
    /\ UNCHANGED botVars

\* handle_message(message)
HandleMessage(msg, res) ==
    /\ obs = Idle
    /\ obs' = DirectRoute("chat", msg, res)
    /\ UNCHANGED botVars

\* (a variant that keeps an existing binding)
RegisterCommandKeepFirst(name, h) ==
    /\ obs = Idle
    /\ instCmds' = IF AttrName(name) \in DOMAIN instCmds \cup DOMAIN classCmds
                   THEN instCmds ELSE SetAttr(instCmds, AttrName(name), h)
    /\ lastReg' = SetAttr(lastReg, name, h)
    /\ obs' = Quiet("register", NoMsg)
    /\ UNCHANGED <<client, handlers, plugins, tconn, processing, idle, jobs,
                   rooms, initial_users, server, roster, classCmds>>

\* register_command(cmdname, cmdfun)
RegisterCommand(name, h) ==
    /\ obs = Idle
    /\ instCmds' = SetAttr(instCmds, AttrName(name), h)
    /\ lastReg' = SetAttr(lastReg, name, h)
    /\ obs' = Quiet("register", NoMsg)
    /\ UNCHANGED <<client, handlers, plugins, tconn, processing, idle, jobs,
                   rooms, initial_users, server, roster, classCmds>>

\* The call in progress returns to the dispatch context (client.process()).
Return ==
    /\ obs # Idle
    /\ obs' = Idle
    /\ UNCHANGED botVars

----------------------------------------------------------------------------
\* Session lifecycle

TCall(name, arg) == [call |-> name, arg |-> arg]

\* The state of the session, read off the client and its connection.
State ==
    IF client = "None" \/ tconn \in {"idle", "closed"} THEN "Disconnected"
    ELSE IF tconn = "up" THEN "Connected"
    ELSE "Ready"

\* connect() installs these, in this order: add_event_handler(event, self.<name>)
HandlerRefs ==
    << <<"groupchat_message", "handle_muc_message">>,
       <<"session_start", "handle_session_start">>,
       <<"message", "handle_message">> >>

PluginNames == {"xep_0030", "xep_0004", "xep_0060", "xep_0199", "xep_0045"}

\* self.<name> for a name the class does not define raises AttributeError
HasAttr(name) == name \in Methods

\* The first handler reference (1..3) that does not resolve, or 4 if all do.
FirstMissing ==
    IF ~HasAttr(HandlerRefs[1][2]) THEN 1
    ELSE IF ~HasAttr(HandlerRefs[2][2]) THEN 2
    ELSE IF ~HasAttr(HandlerRefs[3][2]) THEN 3
    ELSE 4

\* connect(): what it leaves behind and how it ends; ok is what the transport's
\* connect would answer.
ConnectOutcome(ok) ==
    LET same == [client |-> client, handlers |-> handlers, plugins |-> plugins,
                 tconn |-> tconn, error |-> "none", tcalls |-> <<>>, infos |-> 0]
        made == [same EXCEPT !.client = "Client", !.handlers = {}, !.plugins = {},
                             !.tconn = "idle"]
        installed == {HandlerRefs[i] : i \in 1..(FirstMissing - 1)}
        ready == [made EXCEPT !.handlers = installed, !.plugins = PluginNames,
                              !.tcalls = <<TCall(IF ok THEN "connect_ok" ELSE "connect_failed", server)>>]
    IN IF client # "None" THEN same
       ELSE IF FirstMissing <= 3
       THEN [made EXCEPT !.handlers = installed, !.error = "AttributeError"]
       ELSE IF ok
       THEN IF server = "None"
            THEN [ready EXCEPT !.tconn = "up", !.error = "TypeError"]
            ELSE [ready EXCEPT !.tconn = "up", !.infos = 2,
                               !.tcalls = @ \o <<TCall("start_tls", "none")>>]
       ELSE IF server = "None"
            THEN [ready EXCEPT !.error = "TypeError"]
            ELSE [ready EXCEPT !.error = "WhistlerConnectionError"]

\* start(): connect(), then client.process(threaded=False)
Start(ok) ==
    /\ obs = Idle
    /\ ~processing
    /\ LET c == ConnectOutcome(ok)
       IN /\ client' = c.client
          /\ handlers' = c.handlers
          /\ plugins' = c.plugins
          /\ tconn' = c.tconn
          /\ processing' = (c.error = "none")
          /\ obs' = [Quiet("start", NoMsg) EXCEPT
                        !.arg = IF ok THEN "ok" ELSE "fail",
                        !.error = c.error, !.infos = c.infos,
                        !.tcalls = IF c.error = "none"
                                   THEN c.tcalls \o <<TCall("process", "none")>>
                                   ELSE c.tcalls]
    /\ UNCHANGED <<idle, jobs, rooms, initial_users, server, roster, classCmds,
                   instCmds, lastReg>>

\* The orders a set can be iterated in.
Orders(S) ==
    {q \in [1..Cardinality(S) -> S] : \A i, j \in 1..Cardinality(S) : q[i] = q[j] => i = j}

LeaveCalls(ord, k) == [i \in 1..k |-> TCall("leaveMUC", ord[i])]

\* The calls of a disconnect() whose k-th leaveMUC raises.
FailedLeaveCalls(ord, k) ==
    [i \in 1..k |-> TCall(IF i = k THEN "leaveMUC_failed" ELSE "leaveMUC", ord[i])]

\* WhistlerIdleJob: start() sets a new job running, stop() stops the job it is
\* called on and leaves every other job as it is.
JobStarted(running) == running + 1
JobStopped(job, running) == IF job = "Running" THEN running - 1 ELSE running

\* `if self.idle: self.idle.stop()`
IdleStopCalls == IF idle = "None" THEN <<>> ELSE <<TCall("idle_stop", "none")>>

\* stop(): disconnect(), which leaves every room and closes the connection, then
\* the idle job is stopped.  ord is the order the rooms are iterated in and
\* failAt the position of the first leaveMUC that raises (0: none does).
Stop(ord, failAt) ==
    /\ obs = Idle
    /\ LET n == Len(ord)
           q == [Quiet("stop", NoMsg) EXCEPT !.infos = 1]
       IN IF client = "None"
          THEN /\ obs' = [q EXCEPT !.error = "AttributeError"]
               /\ UNCHANGED <<tconn, processing, idle, jobs>>
          ELSE IF failAt > 0
          THEN /\ obs' = [q EXCEPT !.error = "TransportError",
                                   !.tcalls = FailedLeaveCalls(ord, failAt)]
               /\ UNCHANGED <<tconn, processing, idle, jobs>>
          ELSE /\ obs' = [q EXCEPT !.tcalls = LeaveCalls(ord, n)
                                              \o <<TCall("disconnect", "none")>>
                                              \o IdleStopCalls]
               /\ tconn' = "closed"
               /\ processing' = FALSE
               /\ idle' = IF idle = "None" THEN "None" ELSE "Stopped"
               /\ jobs' = JobStopped(idle, jobs)
    /\ UNCHANGED <<client, handlers, plugins, rooms, initial_users, server, roster,
                   classCmds, instCmds, lastReg>>

\* users=None of __init__, and users given as a set
NoUsers == [isNone |-> TRUE, set |-> {}]
UserSet(S) == [isNone |-> FALSE, set |-> S]

RosterCalls(ord) == [i \in 1..Len(ord) |-> TCall("update_roster_both", ord[i])]

\* handle_session_start(event).  join_room is called with one argument where it
\* takes two (room, server), and iterating users=None raises: both TypeError.
\* uord is the order self._initial_users is iterated in.
HandleSessionStart(uord) ==
    /\ obs = Idle
    /\ jobs < MaxJobs
    /\ LET q == Quiet("session_start", NoMsg)
           begun == <<TCall("get_roster", "none"), TCall("send_presence", "none"),
                      TCall("idle_start", "none")>>
       IN IF client = "None"
          THEN /\ obs' = [q EXCEPT !.error = "AttributeError"]
               /\ UNCHANGED <<idle, jobs>>
          ELSE /\ idle' = "Running"
               /\ jobs' = JobStarted(jobs)
               /\ obs' = IF rooms # {} \/ initial_users.isNone
                         THEN [q EXCEPT !.error = "TypeError", !.tcalls = begun]
                         ELSE [q EXCEPT !.tcalls = begun \o RosterCalls(uord)]
    /\ UNCHANGED <<client, handlers, plugins, tconn, processing, rooms, initial_users,
                   server, roster, classCmds, instCmds, lastReg>>

PresenceTypes == {"subscribe", "subscribed", "unsubscribe", "available"}

PresenceMsg(type, who) == [from |-> [bare |-> who, resource |-> "pc"], body |-> <<>>, type |-> type]

\* Whether a global name of the module resolves (else NameError).
HasGlobal(name) == name \in ModuleGlobals

Approval(who) == <<TCall("send_presence_subscribed", who), TCall("send_presence_subscribe", who)>>

\* (a variant that approves every subscriber)
PresenceOutcomeApproveAll(type, who) ==
    [error |-> "none", pending |-> initial_users,
     sent |-> IF type = "subscribe" THEN Approval(who) ELSE <<>>]

\* handle_presence(client, message): how it ends, what it sends, and the pending
\* set it leaves.  `who in None` raises TypeError, self.client.send on no client
\* AttributeError, and the unbound global xmpp NameError.
PresenceOutcome(type, who) ==
    LET end(err, sent, pend) == [error |-> err, sent |-> sent, pending |-> pend]
    IN IF type = "subscribe"
       THEN IF initial_users.isNone THEN end("TypeError", <<>>, initial_users)
            ELSE IF who \notin initial_users.set THEN end("none", <<>>, initial_users)
            ELSE IF client = "None" THEN end("AttributeError", <<>>, initial_users)
            ELSE IF ~HasGlobal("xmpp") THEN end("NameError", <<>>, initial_users)
            ELSE end("none", Approval(who), initial_users)
       ELSE IF type = "subscribed"
       THEN IF initial_users.isNone THEN end("TypeError", <<>>, initial_users)
            ELSE end("none", <<>>, UserSet(initial_users.set \ {who}))
       ELSE end("none", <<>>, initial_users)

HandlePresence(type, who) ==
    /\ obs = Idle
    /\ LET out == PresenceOutcome(type, who)
       IN /\ initial_users' = out.pending
          /\ obs' = [Quiet("presence", PresenceMsg(type, who)) EXCEPT
                        !.error = out.error, !.tcalls = out.sent]
    /\ UNCHANGED <<client, handlers, plugins, tconn, processing, idle, jobs, rooms,
                   server, roster, classCmds, instCmds, lastReg>>

\* The client, inside process(), hands an inbound message to a handler installed
\* for a message event; with none installed the message is dropped.
MessageHandlers == {h[2] : h \in {x \in handlers : x[1] \in {"groupchat_message", "message"}}}

RunHandler(h, msg, res) ==
    IF h = "handle_message" THEN DirectRoute("deliver", msg, res)
    ELSE IF h \in {"hande_muc_message", "handle_muc_message"} THEN MucRoute("deliver", msg, res)
    ELSE Quiet("deliver", msg)

Deliver(msg, res) ==
    /\ obs = Idle
    /\ processing
    /\ \E h \in (IF MessageHandlers = {} THEN {"none"} ELSE MessageHandlers) :
          obs' = RunHandler(h, msg, res)
    /\ UNCHANGED botVars

----------------------------------------------------------------------------
\* Specifications

TypeOK ==
    /\ client \in {"None", "Client"}
    /\ tconn \in {"idle", "up", "session", "closed"}
    /\ processing \in BOOLEAN
    /\ idle \in {"None", "Running", "Stopped"}
    /\ jobs \in 0..MaxJobs
    /\ rooms \subseteq Rooms
    /\ roster \subseteq BareIds \cup RosterIds

\* The bot as constructed: __init__ with any rooms, users and server.
Init ==
    /\ client = "None"
    /\ handlers = {}
    /\ plugins = {}
    /\ tconn = "idle"
    /\ processing = FALSE
    /\ idle = "None"
    /\ jobs = 0
    /\ rooms \in {{}, {"room"}, Rooms}
    /\ initial_users \in {NoUsers} \cup {UserSet(S) : S \in SUBSET Users}
    /\ server \in {"None", "Tuple"}
    /\ roster = {"alice", "room"}
    /\ classCmds = NoCmds
    /\ instCmds = NoCmds
    /\ lastReg = NoCmds
    /\ obs = Idle

\* The session and registry operations.
Next ==
    \/ \E ok \in BOOLEAN : Start(ok)
    \/ \E ord \in Orders(rooms), failAt \in 0..Cardinality(rooms) : Stop(ord, failAt)
    \/ \E uord \in Orders(initial_users.set) : HandleSessionStart(uord)
    \/ \E type \in PresenceTypes, who \in Users \cup {"room"} : HandlePresence(type, who)
    \/ Return

Spec == Init /\ [][Next]_vars

\* The message routers, on a bot whose class defines any of the command tables.
InitRouter ==
    /\ client = "None"
    /\ handlers = {}
    /\ plugins = {}
    /\ tconn = "idle"
    /\ processing = FALSE
    /\ idle = "None"
    /\ jobs = 0
    /\ rooms = Rooms
    /\ initial_users = NoUsers
    /\ server = "Tuple"
    /\ roster = {"alice", "room"}
    /\ classCmds \in ClassTables
    /\ instCmds = NoCmds
    /\ lastReg = NoCmds
    /\ obs = Idle

NextRouter ==
    \/ \E ok \in BOOLEAN : Start(ok)
    \/ /\ obs = Idle
       /\ \E msg \in Messages("groupchat"), res \in Results : HandeMucMessage(msg, res)
    \/ /\ obs = Idle
       /\ \E msg \in Messages("chat"), res \in Results : HandleMessage(msg, res)
    \/ /\ obs = Idle /\ processing
       /\ \E msg \in Messages("groupchat") \cup Messages("chat"), res \in Results :
             Deliver(msg, res)
    \/ Return

SpecRouter == InitRouter /\ [][NextRouter]_vars

\* The registry: register_command calls at run time, and direct messages that
\* look commands up.
InitRegistry ==
    /\ client = "None"
    /\ handlers = {}
    /\ plugins = {}
    /\ tconn = "idle"
    /\ processing = FALSE
    /\ idle = "None"
    /\ jobs = 0
    /\ rooms = Rooms
    /\ initial_users = NoUsers
    /\ server = "Tuple"
    /\ roster = {"alice", "room"}
    /\ classCmds \in ClassTables
    /\ instCmds = NoCmds
    /\ lastReg = NoCmds
    /\ obs = Idle

NextRegistry ==
    \/ \E ok \in BOOLEAN : Start(ok)
    \/ \E name \in CmdNames, h \in Bindings : RegisterCommand(name, h)
    \/ /\ obs = Idle
       /\ \E msg \in {m \in Messages("chat") : m.from.bare = "alice"}, res \in Results :
             HandleMessage(msg, res)
    \/ Return

SpecRegistry == InitRegistry /\ [][NextRegistry]_vars

----------------------------------------------------------------------------
\* is_validuser(jid) called on its own.
IsValidUserCall(jid) ==
    /\ obs = Idle
    /\ obs' = IF ValidUserRaises(jid)
              THEN [Quiet("is_validuser", NoMsg) EXCEPT !.arg = jid,
                                                        !.error = "AttributeError"]
              ELSE [Quiet("is_validuser", NoMsg) EXCEPT !.arg = jid,
                                                        !.valid = IsValidUser(jid)]
    /\ UNCHANGED botVars

\* (a variant that keeps the bot's own jid)
UsersViewWithSelf(keys) == {jid \in keys : jid \notin rooms}

\* The users property over the roster's keys.
UsersView(keys) == {jid \in keys : jid \notin rooms /\ jid # SelfJid}

\* list(bot.users): the generator dereferences self.client when first advanced.
ListUsers ==
    /\ obs = Idle
    /\ obs' = IF client = "None"
              THEN [Quiet("users", NoMsg) EXCEPT !.error = "AttributeError"]
              ELSE [Quiet("users", NoMsg) EXCEPT !.view = UsersView(roster)]
    /\ UNCHANGED botVars

\* Authorization: any rooms, any roster.
InitAuth ==
    /\ client = "None"
    /\ handlers = {}
    /\ plugins = {}
    /\ tconn = "idle"
    /\ processing = FALSE
    /\ idle = "None"
    /\ jobs = 0
    /\ rooms \in SUBSET Rooms
    /\ initial_users = NoUsers
    /\ server = "Tuple"
    /\ roster \in SUBSET RosterIds
    /\ classCmds = NoCmds
    /\ instCmds = NoCmds
    /\ lastReg = NoCmds
    /\ obs = Idle

NextAuth ==
    \/ \E ok \in BOOLEAN : Start(ok)
    \/ \E jid \in RosterIds \cup {"bob"} : IsValidUserCall(jid)
    \/ ListUsers
    \/ Return

SpecAuth == InitAuth /\ [][NextAuth]_vars

\* Properties

RouterOps == {"muc", "chat", "deliver"}

\* C1: for a restricted command reached by an inbound message (so the client
\* exists): a sender whose bare identity is not in the roster, or is a room,
\* gets the wrapped function not called, no reply and exactly one warning; a
\* sender in the roster that is no room gets the wrapped function called once
\* with the router's message and arguments, and its result as the reply.
C1_RestrictedGuard ==
    (obs.op \in RouterOps /\ obs.command.kind = "restricted" /\ obs.pre.client = "Client")
    => LET user == obs.msg.from.bare
       IN IF user \in roster /\ user \notin rooms
          THEN /\ obs.inner = <<Invocation(obs.command.fun, obs.msg, obs.parsed.args)>>
               /\ obs.warnings = 0
               /\ obs.error = "none"
               /\ obs.replies = IF obs.result = NoneVal THEN <<>>
                                ELSE <<[msg |-> obs.msg, body |-> obs.result.val]>>
          ELSE /\ obs.inner = <<>>
               /\ obs.replies = <<>>
               /\ obs.warnings = 1

\* A room that is in the roster sends a restricted command and is turned away.
C1_Witness ==
    /\ obs.op = "chat"
    /\ obs.command = Restricted("f1")
    /\ obs.pre.client = "Client"
    /\ obs.msg.from.bare = "room"
    /\ "room" \in roster
    /\ obs.warnings = 1
    /\ obs.inner = <<>>

\* C2: a "subscribe" presence from an identity that is not in the pending
\* initial users sends nothing (no approval, no counter-subscription, no roster
\* update) and leaves the pending set as it was.
C2_UnknownSubscriberIgnored ==
    (/\ obs.op = "presence"
     /\ obs.msg.type = "subscribe"
     /\ obs.msg.from.bare \notin obs.pre.pending.set)
    => /\ obs.tcalls = <<>>
       /\ initial_users = obs.pre.pending

\* bob asks to subscribe while only alice is pending.
C2_Witness ==
    /\ obs.op = "presence"
    /\ obs.msg.type = "subscribe"
    /\ obs.msg.from.bare = "bob"
    /\ obs.pre.client = "Client"
    /\ obs.pre.pending = UserSet({"alice"})
    /\ obs.error = "none"
    /\ obs.tcalls = <<>>

\* C3: a "subscribe" presence that the client delivers from a pending identity sends exactly one approval
\* with its counter-subscription and removes the identity from the pending set;
\* a "subscribed" presence from it leaves it out of the pending set.
C3_PendingSubscriberApproved ==
    /\ (/\ obs.op = "presence"
        /\ obs.pre.client = "Client"
        /\ obs.msg.type = "subscribe"
        /\ obs.msg.from.bare \in obs.pre.pending.set)
       => /\ obs.tcalls = Approval(obs.msg.from.bare)
          /\ obs.msg.from.bare \notin initial_users.set
    /\ (/\ obs.op = "presence"
        /\ obs.msg.type = "subscribed"
        /\ ~obs.pre.pending.isNone)
       => /\ obs.error = "none"
          /\ initial_users = UserSet(obs.pre.pending.set \ {obs.msg.from.bare})

\* C4: stop() on a bot that is Disconnected, because it never started or was
\* stopped before, raises nothing, calls nothing on the transport and leaves the
\* bot Disconnected.
C4_StopIdempotent ==
    (obs.op = "stop" /\ (obs.pre.client = "None" \/ obs.pre.tconn = "closed"))
    => /\ obs.error = "none"
       /\ \A i \in DOMAIN obs.tcalls : obs.tcalls[i].call = "idle_stop"
       /\ State = "Disconnected"

\* C5: a group message whose body starts neither with the sigil nor with
\* "<nick>, " or "<nick>: " invokes no handler and gets no reply, whether the
\* group router is called with it or the client hands it to a handler the bot
\* installed.
C5_InertGroupMessage ==
    LET b == obs.msg.body
    IN (/\ obs.op \in {"muc", "deliver"}
        /\ obs.msg.type = "groupchat"
        /\ ~(Len(b) >= 1 /\ b[1] = "!")
        /\ ~StartsWith(b, resource \o <<",", " ">>)
        /\ ~StartsWith(b, resource \o <<":", " ">>))
       => /\ obs.calls = <<>>
          /\ obs.inner = <<>>
          /\ obs.replies = <<>>

\* The group body "n n" names the registered command n without addressing the bot.
C5_Witness ==
    /\ obs.op = "muc"
    /\ obs.msg.body = <<"n", " ", "n">>
    /\ AttrName(<<"n">>) \in DOMAIN classCmds
    /\ obs.calls = <<>>
    /\ obs.replies = <<>>

\* C6: a group or direct message whose command name has no cmd_<name> binding
\* invokes no handler, makes no call on the transport, sends no reply and raises
\* nothing.
C6_UnknownCommandIgnored ==
    (/\ obs.op \in RouterOps
     /\ obs.parsed.kind = "command"
     /\ AttrName(obs.parsed.name) \notin DOMAIN instCmds \cup DOMAIN classCmds)
    => /\ obs.calls = <<>>
       /\ obs.inner = <<>>
       /\ obs.replies = <<>>
       /\ obs.tcalls = <<>>
       /\ obs.error = "none"

\* The group message "!n" when no command n is bound.
C6_Witness ==
    /\ obs.op = "muc"
    /\ obs.msg.body = <<"!", "n">>
    /\ obs.parsed = Parsed("command", <<"n">>, <<>>)
    /\ classCmds = NoCmds
    /\ obs.replies = <<>>

\* C7: start() surfaces no failure other than WhistlerConnectionError; when the
\* transport's connect reports failure it ends with that error after exactly
\* one connect call and does not enter client.process().
C7_StartFailsOnlyWithConnectionError ==
    obs.op = "start"
    => /\ obs.error \in {"none", "WhistlerConnectionError"}
       /\ (\E i \in DOMAIN obs.tcalls : obs.tcalls[i].call = "connect_failed")
          => /\ obs.error = "WhistlerConnectionError"
             /\ Cardinality({i \in DOMAIN obs.tcalls :
                    obs.tcalls[i].call \in {"connect_ok", "connect_failed"}}) = 1
             /\ ~processing

C9_LastWriteWins ==
    /\ \A name \in DOMAIN lastReg : GetCommand(name) = lastReg[name]
    /\ (obs.op = "chat" /\ obs.parsed.kind = "command" /\ obs.parsed.name \in DOMAIN lastReg)
       => /\ obs.command = lastReg[obs.parsed.name]
          /\ Len(obs.calls) = 1

\* The class defines cmd_n as f1; n was registered again and a message reaches f2.
C9_Witness ==
    /\ AttrName(<<"n">>) \in DOMAIN classCmds
    /\ classCmds[AttrName(<<"n">>)] = Plain("f1")
    /\ <<"n">> \in DOMAIN lastReg
    /\ lastReg[<<"n">>] = Plain("f2")
    /\ obs.op = "chat"
    /\ obs.command = Plain("f2")

\* C10: when a command was called and returned, a reply is sent exactly if its
\* result is not None, the reply goes to the context of the message and carries
\* the result; the empty string is sent.
C10_ReplyUnlessNone ==
    (obs.op \in RouterOps /\ obs.calls # <<>> /\ obs.error = "none")
    => obs.replies = IF obs.result = NoneVal THEN <<>>
                     ELSE <<[msg |-> obs.msg, body |-> obs.result.val]>>

\* A group command returns "" and the empty reply is sent to the group.
C10_Witness ==
    /\ obs.op = "muc"
    /\ obs.msg.type = "groupchat"
    /\ obs.calls # <<>>
    /\ obs.result = Str(<<>>)
    /\ obs.replies = <<[msg |-> obs.msg, body |-> <<>>]>>

\* Whether the call in progress made the call c with argument a.
Called(c, a) == \E i \in DOMAIN obs.tcalls : obs.tcalls[i] = TCall(c, a)

\* C11: handling session-established on a connected client completes, having
\* fetched the roster, sent presence, started the keep-alive job, joined every
\* configured room and registered every initial user, whatever rooms and users
\* the bot was built with, none given included.
C11_SessionStartCompletes ==
    (obs.op = "session_start" /\ obs.pre.client = "Client")
    => /\ obs.error = "none"
       /\ Called("get_roster", "none")
       /\ Called("send_presence", "none")
       /\ Called("idle_start", "none")
       /\ idle = "Running"
       /\ \A r \in rooms : Called("joinMUC", r)
       /\ \A u \in initial_users.set : Called("update_roster_both", u)

\* The positions in the call in progress at which the call c was made.
Positions(c) == {i \in DOMAIN obs.tcalls : obs.tcalls[i].call = c}

\* C12: a stop of a bot whose session was started leaves every room first, then
\* stops the keep-alive job, and only then disconnects the transport: the job
\* has been told to stop when the disconnect is issued.
C12_JobStoppedBeforeDisconnect ==
    (obs.op = "stop" /\ obs.pre.client = "Client" /\ obs.pre.idle = "Running"
        /\ obs.error = "none")
    => /\ \A r \in rooms : Called("leaveMUC", r)
       /\ Positions("idle_stop") # {}
       /\ Positions("disconnect") # {}
       /\ \A l \in Positions("leaveMUC"), s \in Positions("idle_stop") : l < s
       /\ \A s \in Positions("idle_stop"), d \in Positions("disconnect") : s < d

\* C13: when leaving a room fails during stop, the remaining rooms are still
\* left, the keep-alive job is stopped, the transport is disconnected and the
\* bot ends Disconnected.
C13_BestEffortShutdown ==
    (obs.op = "stop" /\ Positions("leaveMUC_failed") # {})
    => /\ \A r \in rooms : Called("leaveMUC", r) \/ Called("leaveMUC_failed", r)
       /\ Positions("disconnect") # {}
       /\ idle # "Running"
       /\ State = "Disconnected"

\* C14: at most one keep-alive job is running, also when session-established is
\* handled again without a stop in between, and no job is running after a stop
\* that completed.
C14_AtMostOneJob ==
    /\ jobs <= 1
    /\ (obs.op = "stop" /\ obs.error = "none") => jobs = 0

\* The calls of the transport's connect made by the call in progress.
ConnectCalls == Positions("connect_ok") \cup Positions("connect_failed")

\* C15: a start() after a stop() that closed the connection connects the
\* transport anew and does not go on with the closed connection.
C15_StartAfterStopReconnects ==
    (obs.op = "start" /\ obs.pre.tconn = "closed")
    => /\ ConnectCalls # {}
       /\ tconn # "closed"

\* C16: is_validuser(jid) is true exactly when jid is in the roster, is not a
\* configured room and is not the bot's own identity.
C16_ValidUserExcludesSelf ==
    (obs.op = "is_validuser" /\ obs.error = "none")
    => obs.valid = (/\ obs.arg \in roster
                    /\ obs.arg \notin rooms
                    /\ obs.arg \notin {SelfBare, SelfJid})

\* C17: the users view is exactly the roster's identities that are neither a
\* configured room nor the bot's own full identity.
C17_UsersView ==
    (obs.op = "users" /\ obs.error = "none")
    => /\ obs.view = (roster \ rooms) \ {SelfJid}
       /\ SelfJid \notin obs.view
       /\ obs.view \cap rooms = {}

\* The roster holds a user, a configured room and the bot's own jid; the view is
\* the user alone.
C17_Witness ==
    /\ obs.op = "users"
    /\ obs.error = "none"
    /\ roster = {"alice", "room", SelfJid}
    /\ "room" \in rooms
    /\ obs.view = {"alice"}

\* A body that names no command: for a direct message one without a token, for
\* a group message the empty one, the sigil alone, or the nickname prefix with
\* no token after it.
NamesNoCommand(msg) ==
    LET body == msg.body
        toks == Split(body)
    IN IF msg.type = "chat"
       THEN toks = <<>>
       ELSE \/ body = <<>>
            \/ toks = << <<COMMAND_CHAR>> >>
            \/ /\ \/ StartsWith(body, resource \o <<",", " ">>)
                  \/ StartsWith(body, resource \o <<":", " ">>)
               /\ Len(toks) = 1

\* C18: a message whose body names no command is handled without an error, calls
\* no command and sends no reply.
C18_NoCommandNoError ==
    (obs.op \in {"muc", "chat"} /\ NamesNoCommand(obs.msg))
    => /\ obs.error = "none"
       /\ obs.calls = <<>>
       /\ obs.replies = <<>>

\* C19: a start() that enters client.process() has, in that same call, called
\* the transport's connect and got true; so a start() that follows a failed
\* start() calls connect again.
C19_ProcessOnlyAfterConnect ==
    (obs.op = "start" /\ Positions("process") # {})
    => /\ Positions("connect_ok") # {}
       /\ \A c \in Positions("connect_ok"), p \in Positions("process") : c < p

\* The names connect() must install a callback under, with the callback of each.
RequiredCallbacks == {"handle_session_start", "hande_muc_message", "handle_message",
                      "handle_presence"}

\* C20: a connect() of a new client that the transport would accept ends with a
\* callback that exists on the bot installed for session-established, for group
\* messages, for direct messages and for presence changes.
C20_CallbacksInstalled ==
    (obs.op = "start" /\ obs.arg = "ok" /\ obs.pre.client = "None")
    => /\ Positions("connect_ok") # {}
       /\ \A h \in handlers : HasAttr(h[2])
       /\ \A m \in RequiredCallbacks : \E h \in handlers : h[2] = m

====
